---- MODULE Spec2Model ----
(***************************************************************************)
(* Model of the browser chat client of Local_filesearch_agent              *)
(* (src/frontend/app.js): the health poll, the chat submit path, the       *)
(* document refresh and the session actions, as event handlers that run    *)
(* to their next await, with every HTTP request in flight as state.        *)
(***************************************************************************)
EXTENDS Integers, Sequences, FiniteSets, TLC

(***************************************************************************)
(* Bounds of the exploration.                                              *)
(***************************************************************************)
\* user actions (sendMessage, clearChat, newSession) and timer firings
\* explored in one run
MaxEvents == 2

(***************************************************************************)
(* JavaScript values.  A string is a sequence of tokens (a user's text is  *)
(* one character per token); a value is tagged with its type.              *)
(***************************************************************************)
Null == <<"null">>
Undefined == <<"undefined">>
Str(s) == <<"string", s>>
Num(n) == <<"number", n>>
Date(t) == <<"date", t>>

\* an object's field, the field being a sequence of at most one value
Field(f) == IF f = <<>> THEN Undefined ELSE f[1]

IsWhite(c) == c \in {" ", "\t", "\n"}

RECURSIVE TrimStart(_)
TrimStart(s) ==
    IF s # <<>> /\ IsWhite(Head(s)) THEN TrimStart(Tail(s)) ELSE s

RECURSIVE TrimEnd(_)
TrimEnd(s) ==
    IF s # <<>> /\ IsWhite(s[Len(s)]) THEN TrimEnd(SubSeq(s, 1, Len(s) - 1)) ELSE s

\* String.prototype.trim
Trim(s) == TrimEnd(TrimStart(s))

LowerOf(c) ==
    CASE c = "I" -> "i"
      [] c = "N" -> "n"
      [] c = "D" -> "d"
      [] c = "E" -> "e"
      [] c = "X" -> "x"
      [] c = "H" -> "h"
      [] OTHER -> c

\* String.prototype.toLowerCase
ToLowerCase(s) == [i \in 1..Len(s) |-> LowerOf(s[i])]

\* String.prototype.includes
Includes(s, sub) ==
    \E i \in 1..(Len(s) - Len(sub) + 1) : SubSeq(s, i, i + Len(sub) - 1) = sub

\* the needle of the refresh heuristic
INDEX == <<"i", "n", "d", "e", "x">>

\* the conversion of a value assigned to Node.textContent (a nullable
\* DOMString: null and undefined both give the empty string)
DomString(v) == IF v[1] = "string" THEN v[2] ELSE <<>>

(***************************************************************************)
(* The environment: what the user types and what the network answers.      *)
(***************************************************************************)
Inputs ==
    { <<>>,
      <<" ", " ">>,
      <<" ", "h", "i", " ">>,
      <<"r", "e", "I", "n", "d", "e", "x">> }

\* what prompt() returns in newSession: null on cancel, or the text typed
PromptResults == { Null, Str(<<>>), Str(<<"s", "2">>) }

NetworkError == [net |-> "error", ok |-> FALSE, status |-> 0, body |-> [kind |-> "none"]]

HttpReply(st, b) == [net |-> "reply", ok |-> (st >= 200 /\ st <= 299), status |-> st, body |-> b]

Unparseable == [kind |-> "unparseable"]
JsonNull == [kind |-> "null"]

ChatObject(r) == [kind |-> "object", response |-> r]
ChatBodies ==
    { Unparseable, JsonNull, ChatObject(<<>>), ChatObject(<<Str(<<"o", "k">>)>>) }
ChatOutcomes ==
    {NetworkError} \cup {HttpReply(200, b) : b \in ChatBodies}
                   \cup {HttpReply(500, ChatObject(<<>>))}

HealthObject(v, n) == [kind |-> "object", version |-> v, indexed_documents |-> n]
HealthBodies ==
    { Unparseable, JsonNull, HealthObject(<<>>, <<>>),
      HealthObject(<<Str("1.2")>>, <<Num(5)>>) }
HealthOutcomes ==
    {NetworkError} \cup {HttpReply(200, b) : b \in HealthBodies}
                   \cup {HttpReply(503, b) : b \in {Unparseable, HealthObject(<<Str("1.2")>>, <<Num(5)>>)}}

(***************************************************************************)
(* JSON text of a configuration.  The text of an object is kept as its     *)
(* members, each with the characters of its value's text.                  *)
(***************************************************************************)
QUOTE == "\""
BACKSLASH == "\\"

\* a string literal written without escaping
JsonEscape_Raw(s) == s

\* the characters of s as they stand inside a JSON string literal
RECURSIVE JsonEscape(_)
JsonEscape(s) ==
    IF s = <<>> THEN <<>>
    ELSE (IF Head(s) \in {QUOTE, BACKSLASH} THEN <<BACKSLASH, Head(s)>>
          ELSE IF Head(s) = "\n" THEN <<BACKSLASH, "n">>
          ELSE <<Head(s)>>) \o JsonEscape(Tail(s))

\* the characters a JSON string literal's inside t stands for
RECURSIVE JsonUnescape(_)
JsonUnescape(t) ==
    IF t = <<>> THEN <<>>
    ELSE IF Head(t) = BACKSLASH /\ Len(t) >= 2
         THEN <<IF t[2] = "n" THEN "\n" ELSE t[2]>> \o JsonUnescape(Tail(Tail(t)))
         ELSE <<Head(t)>> \o JsonUnescape(Tail(t))

\* the text of the value v of the configuration's field k; the URL, which
\* has no character to escape, is one token
JsonText(k, v) ==
    CASE k = "apiUrl" -> <<QUOTE, v, QUOTE>>
      [] k = "sessionId" -> <<QUOTE>> \o JsonEscape(v[2]) \o <<QUOTE>>
      [] k = "maxRetries" -> <<ToString(v)>>

\* the value the text t of field k parses to
JsonValue(k, t) ==
    CASE k = "apiUrl" -> t[2]
      [] k = "sessionId" -> Str(JsonUnescape(SubSeq(t, 2, Len(t) - 1)))
      [] k = "maxRetries" -> CHOOSE n \in 0..9 : ToString(n) = t[1]

\* JSON.stringify(config): every field of config holds a string or a number
JSONstringify(cfg) == [k \in DOMAIN cfg |-> JsonText(k, cfg[k])]

\* JSON.parse of a stored text
JSONparse(text) == [k \in DOMAIN text |-> JsonValue(k, text[k])]

(***************************************************************************)
(* State.                                                                  *)
(***************************************************************************)
VARIABLES
    config,           \* the configuration object
    localStorage,     \* the stored 'filesearch-config' record, if any
    backendStatus,    \* the liveness state
    statusUI,         \* status dot, status text and send button
    typingIndicator,  \* style.display of #typingIndicator
    chatMessages,     \* #chatMessages: the welcome block and the turns
    chatReqs,         \* POST /api/chat requests not yet settled
    healthReqs,       \* GET /health requests not yet settled
    refreshTimers,    \* pending setTimeout(refreshDocuments, 1000) timers
    docReqs,          \* GET /api/indexed-documents requests not yet settled
    documentsList,    \* what #documentsList renders
    pc,               \* position of initialize()
    sendCalls,        \* calls of sendMessage so far
    ticks,            \* setInterval firings so far
    resets,           \* clearChat / newSession actions and reloads so far
    uncaught,         \* an exception left a handler
    healthySince      \* the backend answers /health well from this request
                      \* id on; -1 while it is not known to

\* the desktop shell (the Electron main process)
VARIABLES
    appState,         \* "starting" until app.whenReady, then "running",
                      \* "quitting" from before-quit on, "exited" at the end
    isQuitting,       \* app.isQuitting
    backendProcess,   \* "undefined" until spawn; then the child's state
    spawns,           \* calls of spawn so far
    poll,             \* where checkBackend stands: "idle", "request" (http.get
                      \* outstanding), "timer" (retry scheduled), "ready"
                      \* (callback called), "gaveUp"
    attempts,         \* the attempts argument of the latest checkBackend call
    probes,           \* calls of http.get so far
    res,              \* what the latest http.get ended in
    readyCalls,       \* calls of the readiness callback so far
    mainWindow,       \* "undefined" until createWindow; "hidden", "shown" or
                      \* "destroyed" after
    readyToShow,      \* the once('ready-to-show') handler is still to run
    tray              \* the tray icon exists

shellVars == <<appState, isQuitting, backendProcess, spawns, poll, attempts,
               probes, res, readyCalls, mainWindow, readyToShow, tray>>

clientVars == <<config, localStorage, backendStatus, statusUI, typingIndicator,
                chatMessages, chatReqs, healthReqs, refreshTimers, docReqs,
                documentsList, pc, sendCalls, ticks, resets, uncaught,
                healthySince>>

vars == <<config, localStorage, backendStatus, statusUI, typingIndicator,
          chatMessages, chatReqs, healthReqs, refreshTimers, docReqs,
          documentsList, pc, sendCalls, ticks, resets, uncaught,
          healthySince, appState, isQuitting, backendProcess, spawns, poll,
          attempts, probes, res, readyCalls, mainWindow, readyToShow, tray>>

\* a user action or a timer firing can be taken: the page has loaded
\* (DOMContentLoaded precedes them) and the budget of events is not used up
Budget ==
    /\ pc # "DOMContentLoaded"
    /\ sendCalls + ticks + resets < MaxEvents

HEALTH_INTERVAL == 10000

\* new Date(): the clock as the timer's firings advance it
Now == Date(ticks * HEALTH_INTERVAL)

DefaultConfig ==
    [apiUrl |-> "http://127.0.0.1:8765", sessionId |-> Str(<<"default">>), maxRetries |-> 3]

\* the page as the browser hands it to the script, stored being what
\* localStorage holds under 'filesearch-config'
Startup(stored) ==
    /\ config = DefaultConfig
    /\ localStorage = stored
    /\ backendStatus = [isOnline |-> FALSE, lastCheck |-> Null,
                        version |-> Null, indexedDocs |-> Num(0)]
    /\ statusUI \in {[statusDot |-> "status-dot", statusText |-> "", sendBtnDisabled |-> d] :
                        d \in BOOLEAN}
    /\ typingIndicator = "none"
    /\ chatMessages = [welcome |-> TRUE, messages |-> <<>>]
    /\ chatReqs = {}
    /\ healthReqs = {}
    /\ refreshTimers = 0
    /\ docReqs = 0
    /\ documentsList = [html |-> "initial", items |-> <<>>]
    /\ pc = "DOMContentLoaded"
    /\ sendCalls = 0
    /\ ticks = 0
    /\ resets = 0
    /\ uncaught = FALSE
    /\ healthySince = -1
    /\ appState = "starting"
    /\ isQuitting = FALSE
    /\ backendProcess = "undefined"
    /\ spawns = 0
    /\ poll = "idle"
    /\ attempts = 0
    /\ probes = 0
    /\ res = <<"undefined">>
    /\ readyCalls = 0
    /\ mainWindow = "undefined"
    /\ readyToShow = FALSE
    /\ tray = FALSE

\* a first visit: nothing stored
Init == Startup(<<>>)

(***************************************************************************)
(* Message handling.                                                       *)
(***************************************************************************)
\* an addMessage that replaces the pane's content by the new turn
addMessage_Overwrites(cm, role, content) ==
    [welcome |-> FALSE,
     messages |-> <<[role |-> role, text |-> DomString(content)]>>]

\* addMessage(role, content) applied to the chat pane cm
addMessage(cm, role, content) ==
    [welcome |-> FALSE,
     messages |-> Append(cm.messages, [role |-> role, text |-> DomString(content)])]

showTypingIndicator == "flex"

\* a hideTypingIndicator that leaves style.display as it is
hideTypingIndicator_LeavesDisplay == typingIndicator

hideTypingIndicator == "none"

\* error.message of what the chat request's try block throws on outcome o
\* (only read when the block throws)
ChatErrorMessage(o) ==
    CASE o.net = "error" -> <<"Failed to fetch">>
      [] ~o.ok -> <<"HTTP error! status: ", ToString(o.status)>>
      [] o.body.kind = "unparseable" -> <<"Unexpected token in JSON">>
      [] OTHER -> <<"Cannot read properties of null (reading 'response')">>

\* the text of the catch block's assistant turn (its first token stands for
\* the cross mark and "Error: ")
ErrorText(msg) ==
    Str(<<"[x] Error: ">> \o msg
          \o <<"\n\nMake sure the backend server is running: python api_server.py">>)

\* the try block without its check of response.ok
ChatThrows_NoStatusCheck(o) ==
    \/ o.net = "error"
    \/ o.body.kind \in {"unparseable", "null"}

\* the try block of sendMessage throws on outcome o
ChatThrows(o) ==
    \/ o.net = "error"
    \/ ~o.ok
    \/ o.body.kind \in {"unparseable", "null"}

\* the guard without its liveness half
sendAccepted_IgnoresOnline(message) == message # <<>>

\* the guard of sendMessage: the trimmed text is not empty and the backend
\* is online
sendAccepted(message) == message # <<>> /\ backendStatus.isOnline

sendMessage(raw) ==
    /\ Budget
    /\ sendCalls' = sendCalls + 1
    /\ LET message == Trim(raw) IN
         IF ~sendAccepted(message)
         THEN UNCHANGED <<chatMessages, typingIndicator, chatReqs>>
         ELSE /\ chatMessages' = addMessage(chatMessages, "user", Str(message))
              /\ typingIndicator' = showTypingIndicator
              /\ chatReqs' = chatReqs \cup
                    {[id |-> sendCalls + 1,
                      url |-> <<config.apiUrl, "/api/chat">>,
                      message |-> message,
                      session_id |-> config.sessionId]}
    /\ UNCHANGED <<config, localStorage, backendStatus, statusUI, healthReqs,
                   refreshTimers, docReqs, documentsList, pc,
                   ticks, resets, uncaught, healthySince, shellVars>>

\* a completion that abandons every other outstanding request
Awaited_DropsOthers(reqs, r) == {}

\* the requests still awaited once r has settled: each call of sendMessage
\* awaits its own fetch
Awaited(reqs, r) == reqs \ {r}

\* the heuristic without its case folding
wantsRefresh_CaseSensitive(message) == Includes(message, INDEX)

\* whether message makes a successful send schedule a document refresh
wantsRefresh(message) == Includes(ToLowerCase(message), INDEX)

\* a sendMessage whose catch block marks the backend offline
ChatSettle_FailureMarksOffline(r, o) ==
    /\ r \in chatReqs
    /\ chatReqs' = Awaited(chatReqs, r)
    /\ typingIndicator' = hideTypingIndicator
    /\ IF ChatThrows(o)
       THEN /\ chatMessages' =
                 addMessage(chatMessages, "assistant", ErrorText(ChatErrorMessage(o)))
            /\ backendStatus' = [backendStatus EXCEPT !.isOnline = FALSE]
            /\ statusUI' = [statusDot |-> "status-dot offline",
                            statusText |-> "Activating...",
                            sendBtnDisabled |-> TRUE]
            /\ UNCHANGED refreshTimers
       ELSE /\ chatMessages' =
                 addMessage(chatMessages, "assistant", Field(o.body.response))
            /\ refreshTimers' =
                 IF wantsRefresh(r.message) THEN refreshTimers + 1 ELSE refreshTimers
            /\ UNCHANGED <<backendStatus, statusUI>>
    /\ uncaught' = uncaught
    /\ UNCHANGED <<config, localStorage, healthReqs,
                   docReqs, documentsList, pc, sendCalls, ticks, resets,
                   healthySince, shellVars>>

\* the rest of sendMessage once the request r has settled with outcome o
ChatSettle(r, o) ==
    /\ r \in chatReqs
    /\ chatReqs' = Awaited(chatReqs, r)
    /\ typingIndicator' = hideTypingIndicator
    /\ IF ChatThrows(o)
       THEN /\ chatMessages' =
                 addMessage(chatMessages, "assistant", ErrorText(ChatErrorMessage(o)))
            /\ UNCHANGED refreshTimers
       ELSE /\ chatMessages' =
                 addMessage(chatMessages, "assistant", Field(o.body.response))
            /\ refreshTimers' =
                 IF wantsRefresh(r.message) THEN refreshTimers + 1 ELSE refreshTimers
    /\ uncaught' = uncaught
    /\ UNCHANGED <<config, localStorage, backendStatus, statusUI, healthReqs,
                   docReqs, documentsList, pc, sendCalls, ticks, resets,
                   healthySince, shellVars>>

(***************************************************************************)
(* Backend connection.                                                     *)
(***************************************************************************)
\* an updateStatusUI whose offline branch leaves the send button enabled
updateStatusUI_NeverDisables(bs) ==
    IF bs.isOnline
    THEN [statusDot |-> "status-dot online", statusText |-> "Active",
          sendBtnDisabled |-> FALSE]
    ELSE [statusDot |-> "status-dot offline", statusText |-> "Activating...",
          sendBtnDisabled |-> FALSE]

\* updateStatusUI for the liveness state bs
updateStatusUI(bs) ==
    IF bs.isOnline
    THEN [statusDot |-> "status-dot online", statusText |-> "Active",
          sendBtnDisabled |-> FALSE]
    ELSE [statusDot |-> "status-dot offline", statusText |-> "Activating...",
          sendBtnDisabled |-> TRUE]

\* the try block of checkBackendHealth throws on outcome o
HealthThrows(o) ==
    \/ o.net = "error"
    \/ o.body.kind \in {"unparseable", "null"}

\* the status update whose catch block does not stamp lastCheck
HealthStatus_CatchSkipsTimestamp(bs, o) ==
    IF HealthThrows(o)
    THEN [bs EXCEPT !.isOnline = FALSE]
    ELSE [isOnline |-> o.ok,
          lastCheck |-> Now,
          version |-> Field(o.body.version),
          indexedDocs |-> Field(o.body.indexed_documents)]

\* the status update with isOnline set to true instead of response.ok
HealthStatus_AlwaysOnline(bs, o) ==
    IF HealthThrows(o)
    THEN [bs EXCEPT !.isOnline = FALSE, !.lastCheck = Now]
    ELSE [isOnline |-> TRUE,
          lastCheck |-> Now,
          version |-> Field(o.body.version),
          indexedDocs |-> Field(o.body.indexed_documents)]

\* backendStatus after checkBackendHealth has seen outcome o
HealthStatus(bs, o) ==
    IF HealthThrows(o)
    THEN [bs EXCEPT !.isOnline = FALSE, !.lastCheck = Now]
    ELSE [isOnline |-> o.ok,
          lastCheck |-> Now,
          version |-> Field(o.body.version),
          indexedDocs |-> Field(o.body.indexed_documents)]

\* the boolean checkBackendHealth resolves to
HealthReturns(o) == ~HealthThrows(o)

\* a checkBackendHealth that sends its request again while the retry budget
\* allows
HealthRequest_Retries(caller, id, cfg) ==
    healthReqs' = healthReqs \cup
        {[id |-> id, url |-> <<cfg.apiUrl, "/health">>,
          caller |-> IF k = 0 THEN caller ELSE "retry"] : k \in 0..cfg.maxRetries}

\* a checkBackendHealth that never calls fetch
HealthRequest_NotSent(caller, id, cfg) == healthReqs' = healthReqs

\* the call of fetch in checkBackendHealth
HealthRequest(caller, id, cfg) ==
    healthReqs' = healthReqs \cup
        {[id |-> id, url |-> <<cfg.apiUrl, "/health">>, caller |-> caller]}

\* loadConfig: the stored text, parsed, spread over the current configuration
loadConfig(cfg, stored) ==
    IF stored = <<>> THEN cfg
    ELSE LET saved == JSONparse(stored[1]) IN
         [k \in DOMAIN cfg |-> IF k \in DOMAIN saved THEN saved[k] ELSE cfg[k]]

GREETING == Str(<<"Hello! I'm your AI file search assistant. ...">>)
ACTIVATING == Str(<<"Agent is activating, please wait... ...">>)

\* initialize up to its await of checkBackendHealth
initialize ==
    /\ pc = "DOMContentLoaded"
    /\ pc' = "awaitHealth"
    /\ config' = loadConfig(config, localStorage)
    /\ HealthRequest("initialize", 0, config')
    /\ UNCHANGED <<localStorage, backendStatus, statusUI, typingIndicator,
                   chatMessages, chatReqs, refreshTimers, docReqs,
                   documentsList, sendCalls, ticks, resets, uncaught, healthySince, shellVars>>

\* a firing of setInterval(checkBackendHealth, 10000)
Tick ==
    /\ Budget
    /\ ticks' = ticks + 1
    /\ HealthRequest("setInterval", ticks + 1, config)
    /\ UNCHANGED <<config, localStorage, backendStatus, statusUI,
                   typingIndicator, chatMessages, chatReqs, refreshTimers,
                   docReqs, documentsList, pc, sendCalls, resets, uncaught, healthySince, shellVars>>

\* the rest of checkBackendHealth once the request r has settled with outcome
\* o and, for the call made by initialize, the rest of initialize
HealthSettle(r, o) ==
    /\ r \in healthReqs
    /\ healthReqs' = healthReqs \ {r}
    /\ backendStatus' = HealthStatus(backendStatus, o)
    /\ statusUI' = updateStatusUI(backendStatus')
    /\ IF r.caller = "initialize"
       THEN /\ pc' = "ready"
            /\ IF HealthReturns(o)
               THEN /\ docReqs' = docReqs + 1
                    /\ chatMessages' = addMessage(chatMessages, "assistant", GREETING)
               ELSE /\ UNCHANGED docReqs
                    /\ chatMessages' = addMessage(chatMessages, "assistant", ACTIVATING)
       ELSE UNCHANGED <<pc, docReqs, chatMessages>>
    /\ UNCHANGED <<config, localStorage, typingIndicator, chatReqs,
                   refreshTimers, documentsList, sendCalls, ticks,
                   resets, uncaught, healthySince, shellVars>>

(***************************************************************************)
(* Document management.                                                    *)
(***************************************************************************)
DocObject(c, d) == [kind |-> "object", count |-> c, documents |-> d]
Doc1 == [filename |-> "budget.xlsx", chunk_count |-> 3]
DocOutcomes ==
    { NetworkError,
      HttpReply(200, Unparseable),
      HttpReply(200, DocObject(<<Num(0)>>, <<<<>>>>)),
      HttpReply(200, DocObject(<<Num(1)>>, <<<<Doc1>>>>)),
      HttpReply(200, DocObject(<<Num(1)>>, <<>>)),
      HttpReply(500, DocObject(<<Num(0)>>, <<<<>>>>)) }

\* refreshDocuments throws before it touches the list
DocsThrowsEarly(o) ==
    \/ o.net = "error"
    \/ o.body.kind \in {"unparseable", "null"}

\* a refreshDocuments that appends to the list without emptying it first
DocsRendered_Appends(dl, o) ==
    IF DocsThrowsEarly(o) THEN dl
    ELSE IF Field(o.body.count) = Num(0) THEN [html |-> "empty-state", items |-> <<>>]
    ELSE IF o.body.documents = <<>> THEN [html |-> "items", items |-> dl.items]
    ELSE [html |-> "items", items |-> dl.items \o o.body.documents[1]]

\* a refreshDocuments that renders an empty list when the count is 0
DocsRendered_BlankOnZero(dl, o) ==
    IF DocsThrowsEarly(o) THEN dl
    ELSE IF Field(o.body.count) = Num(0) THEN [html |-> "items", items |-> <<>>]
    ELSE IF o.body.documents = <<>> THEN [html |-> "items", items |-> <<>>]
    ELSE [html |-> "items", items |-> o.body.documents[1]]

\* #documentsList after refreshDocuments has seen outcome o
DocsRendered(dl, o) ==
    IF DocsThrowsEarly(o) THEN dl
    ELSE IF Field(o.body.count) = Num(0) THEN [html |-> "empty-state", items |-> <<>>]
    ELSE IF o.body.documents = <<>> THEN [html |-> "items", items |-> <<>>]
    ELSE [html |-> "items", items |-> o.body.documents[1]]

\* refreshDocuments reaches its status update on outcome o
DocsUpdatesStatus(o) ==
    /\ ~DocsThrowsEarly(o)
    /\ (Field(o.body.count) = Num(0) \/ o.body.documents # <<>>)

\* a refreshDocuments whose failure marks the backend offline
DocsStatus_FailureMarksOffline(bs, o) ==
    IF DocsUpdatesStatus(o) THEN [bs EXCEPT !.indexedDocs = Field(o.body.count)]
    ELSE [bs EXCEPT !.isOnline = FALSE]

\* backendStatus after refreshDocuments has seen outcome o
DocsStatus(bs, o) ==
    IF DocsUpdatesStatus(o) THEN [bs EXCEPT !.indexedDocs = Field(o.body.count)] ELSE bs

\* a setTimeout(refreshDocuments, 1000) timer fires: refreshDocuments up to
\* its await
RefreshTimerFire ==
    /\ refreshTimers > 0
    /\ refreshTimers' = refreshTimers - 1
    /\ docReqs' = docReqs + 1
    /\ UNCHANGED <<config, localStorage, backendStatus, statusUI,
                   typingIndicator, chatMessages, chatReqs, healthReqs,
                   documentsList, pc, sendCalls, ticks, resets,
                   uncaught, healthySince, shellVars>>

\* the rest of refreshDocuments once a request has settled with outcome o
DocsSettle(o) ==
    /\ docReqs > 0
    /\ docReqs' = docReqs - 1
    /\ documentsList' = DocsRendered(documentsList, o)
    /\ backendStatus' = DocsStatus(backendStatus, o)
    /\ statusUI' = IF DocsUpdatesStatus(o) THEN updateStatusUI(backendStatus') ELSE statusUI
    /\ UNCHANGED <<config, localStorage, typingIndicator, chatMessages,
                   chatReqs, healthReqs, refreshTimers, pc, sendCalls,
                   ticks, resets, uncaught, healthySince, shellVars>>

(***************************************************************************)
(* Session management.                                                     *)
(***************************************************************************)
\* the chat pane after clearChat, confirm() having answered confirmed
clearChat(cm, confirmed) ==
    IF confirmed THEN [welcome |-> TRUE, messages |-> <<>>] ELSE cm

\* saveConfig: the record stored under 'filesearch-config'
saveConfig(cfg) == <<JSONstringify(cfg)>>

SessionNotice(id) ==
    Str(<<"Started new session: ">> \o id
          \o <<"\n\nAll previous context has been cleared. How can I help you?">>)

\* a clear-chat action that also goes back to the default session
ClearChat_ResetsSession(confirmed) ==
    /\ Budget
    /\ resets' = resets + 1
    /\ chatMessages' = clearChat(chatMessages, confirmed)
    /\ config' = [config EXCEPT !.sessionId = DefaultConfig.sessionId]
    /\ localStorage' = saveConfig(config')
    /\ UNCHANGED <<backendStatus, statusUI,
                   typingIndicator, chatReqs, healthReqs, refreshTimers,
                   docReqs, documentsList, pc, sendCalls, ticks,
                   uncaught, healthySince, shellVars>>

\* the user's clear-chat action
ClearChat(confirmed) ==
    /\ Budget
    /\ resets' = resets + 1
    /\ chatMessages' = clearChat(chatMessages, confirmed)
    /\ UNCHANGED <<config, localStorage, backendStatus, statusUI,
                   typingIndicator, chatReqs, healthReqs, refreshTimers,
                   docReqs, documentsList, pc, sendCalls, ticks,
                   uncaught, healthySince, shellVars>>

\* newSession, prompt() having answered p and confirm() confirmed
newSession(p, confirmed) ==
    /\ Budget
    /\ resets' = resets + 1
    /\ IF p[1] = "string" /\ p[2] # <<>>
       THEN /\ config' = [config EXCEPT !.sessionId = p]
            /\ localStorage' = saveConfig(config')
            /\ chatMessages' =
                 addMessage(clearChat(chatMessages, confirmed), "assistant",
                            SessionNotice(p[2]))
       ELSE UNCHANGED <<config, localStorage, chatMessages>>
    /\ UNCHANGED <<backendStatus, statusUI, typingIndicator, chatReqs,
                   healthReqs, refreshTimers, docReqs, documentsList, pc,
                   sendCalls, ticks, uncaught, healthySince, shellVars>>

(***************************************************************************)
(* The client as a whole.                                                  *)
(***************************************************************************)
\* one step of the client in an environment whose health, chat and document
\* requests settle with outcomes of H, C and D and whose user types texts of I
Client(H, C, D, I) ==
    \/ initialize
    \/ Tick
    \/ \E r \in healthReqs, o \in H : HealthSettle(r, o)
    \/ \E raw \in I : sendMessage(raw)
    \/ \E r \in chatReqs, o \in C : ChatSettle(r, o)
    \/ RefreshTimerFire
    \/ \E o \in D : DocsSettle(o)
    \/ \E c \in BOOLEAN : ClearChat(c)
    \/ \E p \in PromptResults, c \in BOOLEAN : newSession(p, c)

Next == Client(HealthOutcomes, ChatOutcomes, DocOutcomes, Inputs)

Spec == Init /\ [][Next]_vars

\* the chat path in full, the backend's health either good or unreachable
ChatNext ==
    Client({NetworkError, HttpReply(200, HealthObject(<<Str("1.2")>>, <<Num(5)>>))},
           ChatOutcomes,
           {NetworkError},
           Inputs)

\* the same, every chat request settling in the end (the network answers or
\* fails each fetch)
LiveChatSpec ==
    /\ Init
    /\ [][ChatNext]_vars
    /\ WF_vars(\E r \in chatReqs, o \in ChatOutcomes : ChatSettle(r, o))

(***************************************************************************)
(* The client started over a configuration stored by an earlier visit.     *)
(***************************************************************************)
\* what saveConfig can have stored: nothing, or a configuration whose retry
\* budget is none, or larger than the default
StoredConfigs ==
    { <<>>,
      saveConfig([DefaultConfig EXCEPT !.maxRetries = 0]),
      saveConfig([DefaultConfig EXCEPT !.maxRetries = 5]) }

StoredInit == \E stored \in StoredConfigs : Startup(stored)

\* requests that fail in each way, or succeed
StoredNext ==
    Client({NetworkError,
            HttpReply(503, Unparseable),
            HttpReply(200, HealthObject(<<Str("1.2")>>, <<Num(5)>>))},
           {NetworkError,
            HttpReply(500, ChatObject(<<>>)),
            HttpReply(200, ChatObject(<<Str(<<"ok">>)>>))},
           {NetworkError},
           Inputs)

StoredSpec == StoredInit /\ [][StoredNext]_vars

(***************************************************************************)
(* The page reloaded: the script runs anew over what localStorage holds.   *)
(***************************************************************************)
\* the browser loads the page again: the script's top-level state is set up
\* afresh, requests and timers of the old page are gone, localStorage stays
Reload ==
    /\ Budget
    /\ resets' = resets + 1
    /\ config' = DefaultConfig
    /\ backendStatus' = [isOnline |-> FALSE, lastCheck |-> Null,
                         version |-> Null, indexedDocs |-> Num(0)]
    /\ \E d \in BOOLEAN :
          statusUI' = [statusDot |-> "status-dot", statusText |-> "", sendBtnDisabled |-> d]
    /\ typingIndicator' = "none"
    /\ chatMessages' = [welcome |-> TRUE, messages |-> <<>>]
    /\ chatReqs' = {}
    /\ healthReqs' = {}
    /\ refreshTimers' = 0
    /\ docReqs' = 0
    /\ documentsList' = [html |-> "initial", items |-> <<>>]
    /\ pc' = "DOMContentLoaded"
    /\ UNCHANGED <<localStorage, sendCalls, ticks, uncaught, healthySince, shellVars>>

\* stored texts that lack fields of the configuration
PartialStores ==
    { [sessionId |-> <<QUOTE, "o", "l", "d", QUOTE>>],
      [apiUrl |-> <<QUOTE, "http://localhost:9000", QUOTE>>] }

RestartInit ==
    \E stored \in StoredConfigs \cup {<<t>> : t \in PartialStores} : Startup(stored)

\* what the user can type into the prompt of newSession, a name with
\* characters that JSON escapes included
RestartPrompts == PromptResults \cup {Str(<<"a", QUOTE, BACKSLASH, "\n">>)}

RestartNext ==
    \/ initialize
    \/ \E r \in healthReqs :
         \E o \in {NetworkError, HttpReply(200, HealthObject(<<Str("1.2")>>, <<Num(5)>>))} :
            HealthSettle(r, o)
    \/ \E o \in {NetworkError} : DocsSettle(o)
    \/ \E p \in RestartPrompts, c \in BOOLEAN : newSession(p, c)
    \/ Reload

RestartSpec == RestartInit /\ [][RestartNext]_vars

(***************************************************************************)
(* The client left alone while the backend comes up.                       *)
(***************************************************************************)
\* the replies of a backend that is up: a success status and a JSON object
HealthyOutcomes ==
    { o \in HealthOutcomes : o.net = "reply" /\ o.ok /\ o.body.kind = "object" }

\* the id the next call of checkBackendHealth gives its request
NextHealthId == IF pc = "DOMContentLoaded" THEN 0 ELSE ticks + 1

\* the backend finishes starting: every /health request sent from now on is
\* answered well
BackendRecovers ==
    /\ healthySince = -1
    /\ healthySince' = NextHealthId
    /\ UNCHANGED <<config, localStorage, backendStatus, statusUI,
                   typingIndicator, chatMessages, chatReqs, healthReqs,
                   refreshTimers, docReqs, documentsList, pc, sendCalls,
                   ticks, resets, uncaught, shellVars>>

\* the outcomes the request r can settle with: anything if it was sent before
\* the backend was up, a good reply if it was sent after
AnswersTo(r) ==
    IF healthySince >= 0 /\ r.id >= healthySince THEN HealthyOutcomes ELSE HealthOutcomes

\* the /health request r settles
HealthAnswered == \E r \in healthReqs : \E o \in AnswersTo(r) : HealthSettle(r, o)

\* no user at the page: only the load, the timer and the network act
RecoveryNext ==
    \/ initialize
    \/ Tick
    \/ HealthAnswered
    \/ BackendRecovers
    \/ \E o \in DocOutcomes : DocsSettle(o)

\* the page loads, the interval timer fires while the budget of events
\* lasts, and every health request settles
RecoverySpec ==
    /\ Init
    /\ [][RecoveryNext]_vars
    /\ WF_vars(initialize)
    /\ WF_vars(Tick)
    /\ WF_vars(HealthAnswered)

(***************************************************************************)
(* The desktop shell: electron-main.js as setup_desktop_app.ps1 writes it. *)
(***************************************************************************)
CEILING == 30

\* what a probe of /health can end in: a response with a status, or an error
Response(statusCode) == <<"response", statusCode>>
ProbeError == <<"error">>
ProbeOutcomes == {Response(200), Response(204), Response(503), ProbeError}

\* a readiness test that takes every success status
statusReady_AnySuccess(r) == r[2] >= 200 /\ r[2] <= 299

\* res.statusCode === 200
statusReady(r) == r[2] = 200

\* a kill that does not reach the child
kill_LeavesRunning(bp) == bp

\* backendProcess.kill() on the child bp
kill(bp) == IF bp = "running" THEN "killed" ELSE bp

\* a close handler that never cancels the close
closeWindow_AlwaysCloses(w, quitting) == "destroyed"

\* the close handler of mainWindow: the window after a close request
closeWindow(w, quitting) == IF ~quitting THEN "hidden" ELSE "destroyed"

\* app.whenReady: startBackend, whose spawn starts the child or fails, and
\* checkBackend(callback) up to its http.get
WhenReady ==
    /\ appState = "starting"
    /\ appState' = "running"
    /\ backendProcess' \in {"running", "failed"}
    /\ spawns' = spawns + 1
    /\ attempts' = 0
    /\ poll' = "request"
    /\ probes' = probes + 1
    /\ UNCHANGED <<isQuitting, res, readyCalls, mainWindow, readyToShow, tray,
                   clientVars>>

\* the spawned backend exits by itself
BackendExits ==
    /\ backendProcess = "running"
    /\ backendProcess' = "exited"
    /\ UNCHANGED <<appState, isQuitting, spawns, poll, attempts, probes, res,
                   readyCalls, mainWindow, readyToShow, tray, clientVars>>

\* the outstanding http.get ends in o: the callback (createWindow and
\* createTray) on status 200, a retry scheduled otherwise
ProbeSettles(o) ==
    /\ appState \in {"running", "quitting"}
    /\ poll = "request"
    /\ res' = o
    /\ IF o # ProbeError /\ statusReady(o)
       THEN /\ poll' = "ready"
            /\ readyCalls' = readyCalls + 1
            /\ mainWindow' = "hidden"
            /\ readyToShow' = TRUE
            /\ tray' = TRUE
       ELSE /\ poll' = "timer"
            /\ UNCHANGED <<readyCalls, mainWindow, readyToShow, tray>>
    /\ UNCHANGED <<appState, isQuitting, backendProcess, spawns, attempts,
                   probes, clientVars>>

\* a checkBackend that ends the app when the ceiling is exceeded
RetryTimer_ExitsOnCeiling ==
    /\ appState \in {"running", "quitting"}
    /\ poll = "timer"
    /\ attempts' = attempts + 1
    /\ IF attempts' > CEILING
       THEN poll' = "gaveUp" /\ appState' = "exited" /\ UNCHANGED probes
       ELSE poll' = "request" /\ probes' = probes + 1 /\ UNCHANGED appState
    /\ UNCHANGED <<isQuitting, backendProcess, spawns, res,
                   readyCalls, mainWindow, readyToShow, tray, clientVars>>

\* the retry timer fires: checkBackend(callback, attempts + 1)
RetryTimer ==
    /\ appState \in {"running", "quitting"}
    /\ poll = "timer"
    /\ attempts' = attempts + 1
    /\ IF attempts' > CEILING
       THEN poll' = "gaveUp" /\ UNCHANGED probes
       ELSE poll' = "request" /\ probes' = probes + 1
    /\ UNCHANGED <<appState, isQuitting, backendProcess, spawns, res,
                   readyCalls, mainWindow, readyToShow, tray, clientVars>>

\* the once('ready-to-show') handler: mainWindow.show()
ReadyToShow ==
    /\ appState = "running"
    /\ readyToShow
    /\ readyToShow' = FALSE
    /\ mainWindow' = "shown"
    /\ UNCHANGED <<appState, isQuitting, backendProcess, spawns, poll,
                   attempts, probes, res, readyCalls, tray, clientVars>>

\* the user closes the window
CloseRequest ==
    /\ appState = "running"
    /\ mainWindow = "shown"
    /\ mainWindow' = closeWindow(mainWindow, isQuitting)
    /\ UNCHANGED <<appState, isQuitting, backendProcess, spawns, poll,
                   attempts, probes, res, readyCalls, readyToShow, tray,
                   clientVars>>

\* the tray's Show App, or a double click on the tray icon
TrayShow ==
    /\ appState = "running"
    /\ tray
    /\ mainWindow \in {"hidden", "shown"}
    /\ mainWindow' = "shown"
    /\ UNCHANGED <<appState, isQuitting, backendProcess, spawns, poll,
                   attempts, probes, res, readyCalls, readyToShow, tray,
                   clientVars>>

\* the before-quit handler
BeforeQuit ==
    /\ isQuitting' = TRUE
    /\ backendProcess' = IF backendProcess # "undefined" THEN kill(backendProcess)
                         ELSE backendProcess
    /\ appState' = "quitting"

\* the tray's Quit: app.isQuitting = true; app.quit(), which emits before-quit
TrayQuit ==
    /\ appState = "running"
    /\ tray
    /\ BeforeQuit
    /\ UNCHANGED <<spawns, poll, attempts, probes, res, readyCalls,
                   mainWindow, readyToShow, tray, clientVars>>

\* a quit that does not come from the tray (the session ends, app.quit from
\* the platform): before-quit is emitted
PlatformQuit ==
    /\ appState \in {"starting", "running"}
    /\ BeforeQuit
    /\ UNCHANGED <<spawns, poll, attempts, probes, res, readyCalls,
                   mainWindow, readyToShow, tray, clientVars>>

\* the quit goes through: the windows are closed, their close handlers
\* running with isQuitting set, and the process ends with its timers and
\* requests
Exit ==
    /\ appState = "quitting"
    /\ appState' = "exited"
    /\ mainWindow' = IF mainWindow \in {"hidden", "shown"}
                     THEN closeWindow(mainWindow, isQuitting) ELSE mainWindow
    /\ readyToShow' = FALSE
    /\ tray' = FALSE
    /\ poll' = IF poll \in {"request", "timer"} THEN "idle" ELSE poll
    /\ UNCHANGED <<isQuitting, backendProcess, spawns, attempts, probes, res,
                   readyCalls, clientVars>>

ShellNext ==
    \/ WhenReady
    \/ BackendExits
    \/ \E o \in ProbeOutcomes : ProbeSettles(o)
    \/ RetryTimer
    \/ ReadyToShow
    \/ CloseRequest
    \/ TrayShow
    \/ TrayQuit
    \/ PlatformQuit
    \/ Exit

ShellSpec == Init /\ [][ShellNext]_vars

(***************************************************************************)
(* Properties.                                                             *)
(***************************************************************************)
Turns == chatMessages.messages

UserTurn(text) == [role |-> "user", text |-> text]
AssistantTurn(text) == [role |-> "assistant", text |-> text]

\* a step is the call sendMessage() with raw in the input box
IsSend(raw) == sendMessage(raw)

\* a step is the completion, with outcome o, of the chat request r
IsChatSettle(r, o) == r \in chatReqs /\ ChatSettle(r, o)

\* the text is an error description with the guidance about the backend
IsErrorText(text) ==
    /\ Len(text) >= 2
    /\ text[1] = "[x] Error: "
    /\ text[Len(text)] = "\n\nMake sure the backend server is running: python api_server.py"

\* the chat request got a success status and a JSON object for a body
ChatSucceeded(o) == o.net = "reply" /\ o.ok /\ o.body.kind = "object"

\* the chat request failed in the network or got a non-success status
ChatFailed(o) == o.net = "error" \/ (o.net = "reply" /\ ~o.ok)

\* message contains "index", whatever the case of its letters
MentionsIndex(message) ==
    \E i \in 1..Len(message) :
        /\ i + 4 <= Len(message)
        /\ message[i] \in {"i", "I"}
        /\ message[i + 1] \in {"n", "N"}
        /\ message[i + 2] \in {"d", "D"}
        /\ message[i + 3] \in {"e", "E"}
        /\ message[i + 4] \in {"x", "X"}

\* every character of s is white space
AllWhite(s) == \A i \in 1..Len(s) : s[i] \in {" ", "\t", "\n"}

\* C1: a call of sendMessage made while the liveness state is offline, or
\* with an input that is empty once trimmed, sends no request, appends no
\* turn and does not show the typing indicator.
C1_SendIsNoOpWhenOfflineOrEmpty ==
    [][\A raw \in Inputs :
         (IsSend(raw) /\ (AllWhite(raw) \/ ~backendStatus.isOnline))
            => UNCHANGED <<chatMessages, chatReqs, healthReqs, docReqs,
                           refreshTimers, typingIndicator>>]_vars

\* sendMessage has been called before any health check completed, and the
\* transcript and the network are untouched
C1_Witness ==
    /\ pc = "awaitHealth"
    /\ sendCalls > 0
    /\ ~backendStatus.isOnline
    /\ Turns = <<>>
    /\ chatReqs = {}

\* raw without its leading and trailing white space
Trimmed(raw) ==
    LET black == {i \in 1..Len(raw) : raw[i] \notin {" ", "\t", "\n"}} IN
    IF black = {} THEN <<>>
    ELSE SubSeq(raw, CHOOSE i \in black : \A j \in black : i <= j,
                     CHOOSE i \in black : \A j \in black : i >= j)

\* the step appends exactly the turn t to the transcript
AppendsTurn(t) == Turns' = Append(Turns, t)

\* the step appends exactly one turn, of the given role
AppendsOne(role) ==
    /\ Len(Turns') = Len(Turns) + 1
    /\ SubSeq(Turns', 1, Len(Turns)) = Turns
    /\ Turns'[Len(Turns')].role = role

\* C2: an accepted message whose request succeeds gets exactly one user turn
\* at the call and exactly one assistant turn, carrying the reply's response
\* field, at the completion, which schedules one document refresh if the
\* message mentions "index" in any case and none otherwise.
C2_SuccessAppendsBothTurnsAndSchedulesRefresh ==
    [][/\ \A raw \in Inputs :
            (IsSend(raw) /\ ~AllWhite(raw) /\ backendStatus.isOnline)
               => /\ AppendsTurn(UserTurn(Trimmed(raw)))
                  /\ \E r \in chatReqs' :
                        /\ r \notin chatReqs
                        /\ chatReqs' = chatReqs \cup {r}
                        /\ r.message = Trimmed(raw)
                        /\ r.session_id = config.sessionId
                  /\ refreshTimers' = refreshTimers
       /\ \A r \in chatReqs, o \in ChatOutcomes :
            (IsChatSettle(r, o) /\ ChatSucceeded(o))
               => /\ AppendsOne("assistant")
                  /\ o.body.response # <<>>
                        => AppendsTurn(AssistantTurn(o.body.response[1][2]))
                  /\ refreshTimers' =
                        refreshTimers + (IF MentionsIndex(r.message) THEN 1 ELSE 0)
      ]_vars

\* a message mentioning "Index" was answered and its refresh is scheduled
C2_Witness ==
    /\ refreshTimers = 1
    /\ chatReqs = {}
    /\ \E i \in 1..Len(Turns) :
         /\ i < Len(Turns)
         /\ Turns[i] = UserTurn(<<"r", "e", "I", "n", "d", "e", "x">>)
         /\ Turns[i + 1] = AssistantTurn(<<"o", "k">>)

\* C3: an accepted message whose request fails in the network or with a
\* non-success status gets exactly one assistant turn holding an error
\* description; nothing is requested again, no refresh is scheduled and no
\* exception leaves sendMessage.
C3_FailureIsAbsorbedIntoOneErrorTurn ==
    [][\A r \in chatReqs, o \in ChatOutcomes :
         (IsChatSettle(r, o) /\ ChatFailed(o))
            => /\ AppendsOne("assistant")
               /\ IsErrorText(Turns'[Len(Turns')].text)
               /\ chatReqs' = chatReqs \ {r}
               /\ UNCHANGED <<healthReqs, docReqs, refreshTimers>>
               /\ ~uncaught']_vars

\* a message was answered by an error turn and nothing is outstanding
C3_Witness ==
    /\ chatReqs = {}
    /\ refreshTimers = 0
    /\ \E i \in 1..Len(Turns) :
         /\ i < Len(Turns)
         /\ Turns[i] = UserTurn(<<"h", "i">>)
         /\ Turns[i + 1].role = "assistant"
         /\ IsErrorText(Turns[i + 1].text)

\* the reply has a success status and a body that does not parse, or parses
\* to something without a response field
ChatMalformed(o) ==
    /\ o.net = "reply"
    /\ o.ok
    /\ \/ o.body.kind \in {"unparseable", "null"}
       \/ o.body.kind = "object" /\ o.body.response = <<>>

\* C4 (as claimed): a reply with a success status and a malformed body gets an
\* error turn with the guidance about the backend, never a turn without
\* content.
C4_MalformedBodyGetsErrorTurn ==
    [][\A r \in chatReqs, o \in ChatOutcomes :
         (IsChatSettle(r, o) /\ ChatMalformed(o))
            => /\ AppendsOne("assistant")
               /\ IsErrorText(Turns'[Len(Turns')].text)]_vars

\* C5: whenever no chat request is outstanding the typing indicator is
\* hidden.
C5_IndicatorHiddenWhenNothingOutstanding ==
    chatReqs = {} => typingIndicator = "none"

\* a request was sent and has settled, and the indicator is hidden
C5_Witness ==
    /\ chatReqs = {}
    /\ typingIndicator = "none"
    /\ Len(Turns) >= 2
    /\ Turns[Len(Turns) - 1].role = "user"
    /\ Turns[Len(Turns)].role = "assistant"

\* C6 (as claimed): whenever a chat request is outstanding the typing
\* indicator is shown.
C6_IndicatorShownWhileOutstanding ==
    chatReqs # {} => typingIndicator = "flex"

\* C7: of two overlapping sends neither cancels the other: a completion
\* appends one assistant turn at the end of the transcript, keeps every
\* earlier turn and leaves the other request outstanding, a later send keeps
\* the earlier request and turns, and every request settles in the end.
C7_OverlappingSendsEachGetOneTurn ==
    /\ [][/\ \A r \in chatReqs, o \in ChatOutcomes :
               IsChatSettle(r, o)
                  => /\ AppendsOne("assistant")
                     /\ chatReqs' = chatReqs \ {r}
          /\ \A raw \in Inputs :
               IsSend(raw)
                  => /\ chatReqs \subseteq chatReqs'
                     /\ Len(Turns') >= Len(Turns)
                     /\ SubSeq(Turns', 1, Len(Turns)) = Turns]_vars
    /\ \A id \in 1..MaxEvents :
          (\E r \in chatReqs : r.id = id) ~> ~(\E r \in chatReqs : r.id = id)

\* two sends overlapped (the second user turn precedes the first reply) and
\* both have been answered
C7_Witness ==
    /\ chatReqs = {}
    /\ sendCalls = 2
    /\ Len(Turns) >= 4
    /\ Turns[Len(Turns) - 3].role = "user"
    /\ Turns[Len(Turns) - 2].role = "user"
    /\ Turns[Len(Turns) - 1].role = "assistant"
    /\ Turns[Len(Turns)].role = "assistant"
    /\ Turns[Len(Turns) - 1] # Turns[Len(Turns)]

\* a step is the completion, with outcome o, of the health request r
IsHealthSettle(r, o) == r \in healthReqs /\ HealthSettle(r, o)

\* the health request got no reply, a non-success status or a body that does
\* not parse
HealthFailed(o) ==
    o.net = "error" \/ ~o.ok \/ o.body.kind = "unparseable"

\* the step copies version and indexed_documents from the body of o
CopiesHealthFields(o) ==
    /\ backendStatus'.version =
          (IF o.body.version = <<>> THEN Undefined ELSE o.body.version[1])
    /\ backendStatus'.indexedDocs =
          (IF o.body.indexed_documents = <<>> THEN Undefined
           ELSE o.body.indexed_documents[1])

\* C8 (as claimed): a success status with a parseable body sets online and
\* copies version and indexed_documents from the body; a network error, a
\* non-success status or an unparseable body clears online.
C8_ParseableSuccessSetsOnline ==
    [][\A r \in healthReqs, o \in HealthOutcomes :
         IsHealthSettle(r, o)
            => /\ (o.net = "reply" /\ o.ok /\ o.body.kind \in {"null", "object"})
                     => /\ backendStatus'.isOnline
                        /\ o.body.kind = "object" => CopiesHealthFields(o)
               /\ HealthFailed(o) => ~backendStatus'.isOnline]_vars

\* C8 (amended): a success status with a parseable body other than JSON null
\* sets online and copies version and indexed_documents from the body; a
\* network error, a non-success status, an unparseable body or a null body
\* clears online.
C8_NonNullSuccessSetsOnline ==
    [][\A r \in healthReqs, o \in HealthOutcomes :
         IsHealthSettle(r, o)
            => /\ (o.net = "reply" /\ o.ok /\ o.body.kind = "object")
                     => /\ backendStatus'.isOnline
                        /\ CopiesHealthFields(o)
               /\ (HealthFailed(o) \/ o.body.kind = "null")
                     => ~backendStatus'.isOnline]_vars

\* a check has completed with {version: "1.2", indexed_documents: 5}
C8_Witness ==
    /\ backendStatus.isOnline
    /\ backendStatus.lastCheck # Null
    /\ backendStatus.version = Str("1.2")
    /\ backendStatus.indexedDocs = Num(5)

\* the check that saw o found the backend healthy
HealthSucceeded(o) == o.net = "reply" /\ o.ok /\ o.body.kind = "object"

\* C9: the online flag is the outcome of the check that completed last: a
\* completion sets it to its own outcome together with the timestamp and,
\* when healthy, version and indexedDocs, and no other step changes the flag,
\* the version or the timestamp; so online never shows without a timestamp and
\* a version copied from a body, and before the first completion nothing of
\* the state is set.
C9_OnlineIsLastCompletedCheck ==
    /\ [](/\ backendStatus.isOnline
               => backendStatus.lastCheck # Null /\ backendStatus.version # Null
          /\ backendStatus.lastCheck = Null
               => ~backendStatus.isOnline /\ backendStatus.version = Null)
    /\ [][/\ \A r \in healthReqs, o \in HealthOutcomes :
               IsHealthSettle(r, o)
                  => /\ backendStatus'.isOnline = HealthSucceeded(o)
                     /\ backendStatus'.lastCheck # Null
                     /\ HealthSucceeded(o) => CopiesHealthFields(o)
          /\ (~ \E r \in healthReqs, o \in HealthOutcomes : IsHealthSettle(r, o))
               => /\ backendStatus'.isOnline = backendStatus.isOnline
                  /\ backendStatus'.version = backendStatus.version
                  /\ backendStatus'.lastCheck = backendStatus.lastCheck]_vars

\* both the check of initialize, which failed, and the check of a timer tick,
\* which completed last and succeeded, have settled
C9_Witness ==
    /\ healthReqs = {}
    /\ ticks = 1
    /\ pc = "ready"
    /\ Len(Turns) >= 1
    /\ Turns[1] = AssistantTurn(ACTIVATING[2])
    /\ backendStatus.isOnline
    /\ backendStatus.version = Str("1.2")

\* C10 (as claimed): at most one health check is in flight at any time.
C10_AtMostOneCheckInFlight ==
    Cardinality(healthReqs) <= 1

\* C11 (as claimed): a failed check (network error, non-success status or
\* unparseable body) leaves indexedDocs and version as they were.
C11_FailedCheckKeepsVersionAndDocs ==
    [][\A r \in healthReqs, o \in HealthOutcomes :
         (IsHealthSettle(r, o) /\ HealthFailed(o))
            => /\ backendStatus'.version = backendStatus.version
               /\ backendStatus'.indexedDocs = backendStatus.indexedDocs]_vars

\* C12: whatever the outcome of the health request, checkBackendHealth
\* completes without an exception leaving it: the request is settled, the
\* liveness state carries the time of the completion as its last check, and
\* the caller that awaited it (initialize) goes on.
C12_CheckAlwaysCompletesWithTimestamp ==
    [][\A r \in healthReqs, o \in HealthOutcomes :
         IsHealthSettle(r, o)
            => /\ ~uncaught'
               /\ r \notin healthReqs'
               /\ backendStatus'.lastCheck = Date(ticks * HEALTH_INTERVAL)
               /\ r.caller = "initialize" => pc' = "ready"]_vars

\* the check of initialize has completed as a failure: initialize went on to
\* its notice and the failure is stamped
C12_Witness ==
    /\ pc = "ready"
    /\ ~uncaught
    /\ ~backendStatus.isOnline
    /\ backendStatus.lastCheck # Null
    /\ backendStatus.version = Null
    /\ Len(Turns) >= 1
    /\ Turns[1] = AssistantTurn(ACTIVATING[2])

\* C13: once a check has completed, the send button is enabled and the
\* status reads Active exactly when the liveness state is online; otherwise
\* the button is disabled and the status reads Activating.
C13_StatusUIFollowsOnline ==
    backendStatus.lastCheck # Null
       => /\ statusUI.sendBtnDisabled = ~backendStatus.isOnline
          /\ statusUI.statusText =
                (IF backendStatus.isOnline THEN "Active" ELSE "Activating...")

\* a check found the backend up and a later one found it down: the button is
\* disabled again
C13_Witness ==
    /\ backendStatus.lastCheck = Date(HEALTH_INTERVAL)
    /\ ~backendStatus.isOnline
    /\ backendStatus.version = Str("1.2")
    /\ statusUI.sendBtnDisabled
    /\ statusUI.statusText = "Activating..."
    /\ Len(Turns) >= 1
    /\ Turns[1] = AssistantTurn(GREETING[2])

\* a check is still to be made, or is in flight, that was or will be sent
\* to the backend after it came up
CheckAfterRecovery ==
    /\ healthySince >= 0
    /\ \/ pc = "DOMContentLoaded"
       \/ Budget
       \/ \E r \in healthReqs : r.id >= healthySince

\* C14: with no user action, once the backend is up for good and a check
\* reaches it (the timer fires, the request settles), the liveness state
\* becomes online and the send button is enabled.
C14_PollingRecovers ==
    (~backendStatus.isOnline /\ CheckAfterRecovery)
        ~> (backendStatus.isOnline /\ ~statusUI.sendBtnDisabled)

\* the first check failed (initialize showed the activating notice), the
\* backend came up afterwards and a timer check found it: online by polling
C14_Witness ==
    /\ healthySince >= 1
    /\ ticks >= 1
    /\ backendStatus.isOnline
    /\ ~statusUI.sendBtnDisabled
    /\ statusUI.statusText = "Active"
    /\ backendStatus.lastCheck # Date(0)
    /\ sendCalls = 0 /\ resets = 0
    /\ Len(Turns) = 1
    /\ Turns[1] = AssistantTurn(ACTIVATING[2])

\* the step is a call of checkBackendHealth (by initialize or by the timer)
IsHealthCall == initialize \/ Tick

\* C15: whatever maxRetries is configured, a call of checkBackendHealth
\* issues exactly one health request and an accepted sendMessage exactly one
\* chat request; a completion, whatever its outcome, removes its own request
\* and issues none.
C15_OneRequestPerCall ==
    [][/\ IsHealthCall
            => /\ healthReqs \subseteq healthReqs'
               /\ Cardinality(healthReqs') = Cardinality(healthReqs) + 1
               /\ chatReqs' = chatReqs
       /\ \A raw \in Inputs :
            (IsSend(raw) /\ backendStatus.isOnline /\ ~AllWhite(raw))
               => /\ chatReqs \subseteq chatReqs'
                  /\ Cardinality(chatReqs') = Cardinality(chatReqs) + 1
                  /\ healthReqs' = healthReqs
       /\ \A r \in healthReqs, o \in HealthOutcomes :
            IsHealthSettle(r, o)
               => /\ healthReqs' = healthReqs \ {r}
                  /\ chatReqs' = chatReqs
       /\ \A r \in chatReqs, o \in ChatOutcomes :
            IsChatSettle(r, o)
               => /\ chatReqs' = chatReqs \ {r}
                  /\ healthReqs' = healthReqs]_vars

\* with a retry budget of 5 loaded from storage, a chat request and then a
\* health check have failed and nothing is in flight
C15_Witness ==
    /\ config.maxRetries = 5
    /\ chatReqs = {} /\ healthReqs = {}
    /\ ~backendStatus.isOnline
    /\ backendStatus.lastCheck = Date(ticks * HEALTH_INTERVAL)
    /\ ticks = 1
    /\ Len(Turns) = 3
    /\ IsErrorText(Turns[3].text)

\* a step is the completion, with outcome o, of a document-list request
IsDocsSettle(o) == docReqs > 0 /\ DocsSettle(o)

\* the outcome is a success status with a JSON object carrying a count and
\* the documents
DocsSucceeded(o) ==
    /\ o.net = "reply" /\ o.ok
    /\ o.body.kind = "object"
    /\ o.body.count # <<>>
    /\ o.body.documents # <<>>

\* C16: a successful refreshDocuments renders exactly the documents of the
\* response, whatever was rendered before, sets indexedDocs to the returned
\* count and leaves the online flag as it was.
C16_SuccessReplacesListAndCount ==
    [][\A o \in DocOutcomes :
         (IsDocsSettle(o) /\ DocsSucceeded(o))
            => /\ documentsList'.items = o.body.documents[1]
               /\ backendStatus'.indexedDocs = o.body.count[1]
               /\ backendStatus'.isOnline = backendStatus.isOnline]_vars

\* the refresh of initialize and the one a message about indexing scheduled
\* have both completed; the list shows the one document of the response and
\* the count, which the health check had reported as 5, is 1
C16_Witness ==
    /\ docReqs = 0 /\ refreshTimers = 0
    /\ documentsList = [html |-> "items", items |-> <<Doc1>>]
    /\ backendStatus.indexedDocs = Num(1)
    /\ backendStatus.version = Str("1.2")
    /\ Len(Turns) = 3
    /\ Turns[2] = UserTurn(<<"r", "e", "I", "n", "d", "e", "x">>)
    /\ Turns[3] = AssistantTurn(<<"o", "k">>)

\* C17: a refreshDocuments whose response carries count 0 renders the
\* empty-state message, not a list without entries.
C17_ZeroCountShowsEmptyState ==
    [][\A o \in DocOutcomes :
         (/\ IsDocsSettle(o)
          /\ o.net = "reply" /\ o.body.kind = "object"
          /\ o.body.count = <<Num(0)>>)
            => documentsList' = [html |-> "empty-state", items |-> <<>>]]_vars

\* the health check reported 5 documents, the refresh that followed reported
\* none: the empty-state message is shown
C17_Witness ==
    /\ documentsList.html = "empty-state"
    /\ backendStatus.indexedDocs = Num(0)
    /\ backendStatus.version = Str("1.2")
    /\ docReqs = 0

\* the refresh failed: no reply, a non-success status, or a body that is not
\* an object carrying the documents
DocsFailed(o) ==
    \/ o.net = "error"
    \/ ~o.ok
    \/ o.body.kind # "object"
    \/ o.body.documents = <<>>

\* C18 (as claimed): a failed refreshDocuments leaves the rendered list and
\* indexedDocs as they were and raises nothing.
C18_FailedRefreshLeavesListUntouched ==
    [][\A o \in DocOutcomes :
         (IsDocsSettle(o) /\ DocsFailed(o))
            => /\ documentsList' = documentsList
               /\ backendStatus'.indexedDocs = backendStatus.indexedDocs
               /\ ~uncaught']_vars

\* the step is a clear-chat or a new-session action of the user
IsClearOrReset ==
    \/ \E c \in BOOLEAN : ClearChat(c)
    \/ \E p \in PromptResults, c \in BOOLEAN : newSession(p, c)

\* s is an initial part of t
IsPrefix(s, t) == Len(s) =< Len(t) /\ \A i \in 1..Len(s) : s[i] = t[i]

\* C19: a step that is neither clearChat nor newSession keeps every turn of
\* the transcript, in place and unmodified; it can only add turns at the end.
C19_TranscriptAppendOnly ==
    [][~IsClearOrReset => IsPrefix(Turns, Turns')]_vars

\* five turns added in turn by initialize, two sends and their completions,
\* with no clear or reset
C19_Witness ==
    /\ resets = 0
    /\ Len(Turns) = 5
    /\ Turns[1] = AssistantTurn(GREETING[2])
    /\ Turns[2].role = "user"
    /\ Turns[3].role = "user"
    /\ Turns[4].role = "assistant"
    /\ IsErrorText(Turns[5].text)

\* C20 (as claimed): whenever newSession installs a session identifier, the
\* transcript afterwards holds the session-start notice and nothing else.
C20_NewSessionClearsTranscript ==
    [][\A p \in PromptResults, c \in BOOLEAN :
         (newSession(p, c) /\ p[1] = "string" /\ p[2] # <<>>)
            => Turns' = <<AssistantTurn(SessionNotice(p[2])[2])>>]_vars

\* the configuration a startup would load from the stored record
LoadedAtStartup(stored) == loadConfig(DefaultConfig, stored)

\* the stored record has no field k
AbsentFromStore(k) == localStorage = <<>> \/ k \notin DOMAIN localStorage[1]

\* C21: what newSession saves, a startup loads back with the same apiUrl
\* and sessionId; a startup takes every field the stored record has from it
\* and keeps the default of every field it lacks, all of them when nothing is
\* stored.
C21_ConfigRoundTrips ==
    [][/\ \A p \in RestartPrompts, c \in BOOLEAN :
            (newSession(p, c) /\ p[1] = "string" /\ p[2] # <<>>)
               => /\ config'.sessionId = p
                  /\ LoadedAtStartup(localStorage').sessionId = config'.sessionId
                  /\ LoadedAtStartup(localStorage').apiUrl = config'.apiUrl
       /\ initialize
            => /\ \A k \in {"apiUrl", "sessionId"} :
                    AbsentFromStore(k) => config'[k] = DefaultConfig[k]
               /\ localStorage = <<>> => config' = DefaultConfig
               /\ localStorage # <<>>
                    => \A k \in DOMAIN localStorage[1] :
                          JsonText(k, config'[k]) = localStorage[1][k]]_vars

\* a session named with a quote, a backslash and a newline was started, the
\* page was reloaded and the startup has loaded that name back
C21_Witness ==
    /\ resets = 2
    /\ pc = "ready"
    /\ config.sessionId = Str(<<"a", QUOTE, BACKSLASH, "\n">>)
    /\ config.apiUrl = DefaultConfig.apiUrl
    /\ Len(Turns) = 1
    /\ Turns[1].text \in {GREETING[2], ACTIVATING[2]}

\* the step is a call of checkBackendHealth by the timer, of sendMessage,
\* of refreshDocuments or of clearChat, or the completion of a request
IsNonConfigOperation ==
    \/ Tick
    \/ \E r \in healthReqs, o \in HealthOutcomes : IsHealthSettle(r, o)
    \/ \E raw \in Inputs : IsSend(raw)
    \/ \E r \in chatReqs, o \in ChatOutcomes : IsChatSettle(r, o)
    \/ RefreshTimerFire
    \/ \E o \in DocOutcomes : IsDocsSettle(o)
    \/ \E c \in BOOLEAN : ClearChat(c)

\* C22: health checks, sends, document refreshes, clearChat and the
\* completions of their requests leave the configuration, in memory and
\* stored, as it was.
C22_OnlyNewSessionWritesConfig ==
    [][IsNonConfigOperation => UNCHANGED <<config, localStorage>>]_vars

\* a session was named and saved, and a timer check has since completed:
\* the configuration in memory is still the one stored
C22_Witness ==
    /\ config.sessionId = Str(<<"s", "2">>)
    /\ localStorage = saveConfig(config)
    /\ ticks = 1
    /\ healthReqs = {}
    /\ backendStatus.lastCheck = Date(HEALTH_INTERVAL)

\* C23 (as claimed): checkBackend issues at most 30 health requests in a
\* run.
C23_AtMostThirtyProbes == probes =< 30

\* C24: once checkBackend has given up it issues no probe, schedules no
\* retry and stays given up; no window or tray is created; the step that
\* gives up neither ends the app nor touches the backend process.
C24_GivingUpStopsPollingOnly ==
    [][/\ poll' = "gaveUp"
            => /\ probes' = probes
               /\ readyCalls' = 0
               /\ mainWindow' = "undefined"
               /\ ~tray'
       /\ poll = "gaveUp" => poll' = "gaveUp"
       /\ (poll # "gaveUp" /\ poll' = "gaveUp")
            => /\ res[1] = "error" \/ res[2] # 200
               /\ UNCHANGED <<appState, isQuitting, backendProcess>>]_vars

\* every probe failed, polling has stopped, the app runs on without a
\* window and the backend it spawned is still running
C24_Witness ==
    /\ poll = "gaveUp"
    /\ appState = "running"
    /\ backendProcess = "running"
    /\ mainWindow = "undefined"
    /\ ~tray

\* C25: the shell spawns the backend once, when the app is ready, and once
\* a quit has begun (tray Quit or before-quit from elsewhere, during polling
\* included) the backend it spawned is not running.
C25_OneBackendKilledOnQuit ==
    /\ spawns =< 1
    /\ appState = "running" => spawns = 1
    /\ spawns = 0 => backendProcess = "undefined"
    /\ appState \in {"quitting", "exited"} => backendProcess # "running"

\* the app quit while readiness polling was still going on: the backend was
\* killed and no window was ever created
C25_Witness ==
    /\ appState = "exited"
    /\ backendProcess = "killed"
    /\ probes >= 2
    /\ readyCalls = 0
    /\ poll = "idle"
    /\ mainWindow = "undefined"

\* C26: the readiness callback runs on a probe that returned status 200 and
\* at most once; the window and the tray exist only after it ran; after it
\* ran no probe is issued.
C26_ReadinessIsOneTimeGate ==
    [][/\ readyCalls' =< 1
       /\ readyCalls' # readyCalls => res' = Response(200)
       /\ (mainWindow' # "undefined" \/ tray') => readyCalls' = 1
       /\ readyCalls >= 1 => probes' = probes /\ poll' \in {"ready"}]_vars

\* the third probe returned 200 after two failures: window and tray exist
C26_Witness ==
    /\ readyCalls = 1
    /\ probes = 3
    /\ attempts = 2
    /\ res = Response(200)
    /\ poll = "ready"
    /\ mainWindow = "shown"
    /\ tray

\* C27: isQuitting, once set, stays set; while it is unset a close request
\* hides the window and the window is never destroyed, so Show App has the
\* window to show; with it set, the close goes through.
C27_CloseHidesUntilQuitting ==
    [][/\ isQuitting => isQuitting'
       /\ (CloseRequest /\ ~isQuitting) => mainWindow' = "hidden"
       /\ ~isQuitting' => mainWindow' # "destroyed"
       /\ (tray' /\ appState' = "running") => mainWindow' \in {"hidden", "shown"}
       /\ TrayShow => mainWindow' = "shown"
       /\ (Exit /\ mainWindow \in {"hidden", "shown"}) => mainWindow' = "destroyed"]_vars

\* the window was shown and then closed by the user: it is hidden, the app
\* runs and the tray is there to show it again
C27_Witness ==
    /\ appState = "running"
    /\ ~isQuitting
    /\ tray
    /\ mainWindow = "hidden"
    /\ ~readyToShow

\* C28 (as claimed): when the check of initialize completes, initialize
\* shows the greeting and requests the documents if the liveness state is
\* online, and shows the activating notice, requesting nothing, if it is
\* offline.
C28_StartupNoticeFollowsOnline ==
    [][\A r \in healthReqs, o \in HealthOutcomes :
         (IsHealthSettle(r, o) /\ r.caller = "initialize")
            => IF backendStatus'.isOnline
               THEN /\ AppendsTurn(AssistantTurn(GREETING[2]))
                    /\ docReqs' = docReqs + 1
               ELSE /\ AppendsTurn(AssistantTurn(ACTIVATING[2]))
                    /\ docReqs' = docReqs]_vars

\* the user turn of the request r is in the transcript
QuestionShown(r) == \E i \in 1..Len(Turns) : Turns[i] = UserTurn(r.message)

\* C29 (as claimed): the completion of a chat request whose message is no
\* longer in the transcript, or which was sent under another session
\* identifier than the current one, appends nothing.
C29_NoReplyAcrossClear ==
    [][\A r \in chatReqs, o \in ChatOutcomes :
         (/\ IsChatSettle(r, o)
          /\ ~QuestionShown(r) \/ r.session_id # config.sessionId)
            => Turns' = Turns]_vars

\* C30: sendMessage and the completion of its request, whatever the
\* outcome, refreshDocuments and its completion, clearChat and newSession
\* leave the online flag as it was; the completion of a chat request leaves
\* the send button as it was too.
C30_OnlyHealthCheckChangesOnline ==
    [][/\ (\/ \E raw \in Inputs : IsSend(raw)
           \/ RefreshTimerFire
           \/ \E o \in DocOutcomes : IsDocsSettle(o)
           \/ IsClearOrReset)
            => backendStatus'.isOnline = backendStatus.isOnline
       /\ \A r \in chatReqs, o \in ChatOutcomes :
            IsChatSettle(r, o)
               => /\ backendStatus'.isOnline = backendStatus.isOnline
                  /\ statusUI'.sendBtnDisabled = statusUI.sendBtnDisabled]_vars

\* a chat request has failed and the client is still online with the send
\* button enabled
C30_Witness ==
    /\ chatReqs = {}
    /\ Len(Turns) = 3
    /\ Turns[2].role = "user"
    /\ IsErrorText(Turns[3].text)
    /\ backendStatus.isOnline
    /\ ~statusUI.sendBtnDisabled
    /\ ticks = 0

====
